---- MODULE Spec2Model ----
(***************************************************************************)
(* Model of the Set solver (game/solver.ts), of the frame pipeline of the   *)
(* useSetSolver hook (hooks/useSetSolver.ts) and of the card detector      *)
(* (analysis/opencv-detector.ts), and of the capture and upload handlers   *)
(* of the App component (App.tsx).                                         *)
(*                                                                         *)
(* Arrays are 0-based in the source and 1-based here: At(s, i) reads the   *)
(* element the source calls s[i], and every index stored in a SetResult is *)
(* the source's 0-based index.                                             *)
(***************************************************************************)
EXTENDS Integers, Sequences, FiniteSets, TLC

VARIABLES
    \* ---- solver harness: one card list and the two algorithms' outputs
    sCards,          \* the card list handed to the solver
    sBrute,          \* findAllSets(sCards) once it has run
    sOptimized,      \* findAllSetsOptimized(sCards) once it has run
    \* ---- useSetSolver hook
    mockMode,        \* MOCK_MODE (build-time flag)
    isModelLoaded,   \* useState isModelLoaded
    classifier,      \* classifierRef.current / its session
    cv,              \* the global cv of OpenCV.js
    isProcessingRef, \* isProcessingRef.current
    results,         \* useState results
    calls,           \* the processFrame invocations that have not returned yet
    lastSettled,     \* the processFrame invocation that returned last
    \* ---- function harness
    fnCall,          \* the last call of an exported function: its arguments and outcome
    \* ---- App component
    app              \* useState isProcessing, and the handler that is suspended at an await

solverVars == <<sCards, sBrute, sOptimized>>
hookVars == <<mockMode, isModelLoaded, classifier, cv, isProcessingRef, results, calls,
              lastSettled>>
vars == <<sCards, sBrute, sOptimized, mockMode, isModelLoaded, classifier, cv,
          isProcessingRef, results, calls, lastSettled, fnCall, app>>

Undefined == "undefined"

\* ---------------------------------------------------------------- bounds
MaxCards == 4        \* longest card list handed to the solver harness
MaxDetections == 3   \* most regions the detector returns for one image
MaxCalls == 2        \* processFrame invocations that may coexist
MaxSeed == 1         \* Math.random streams 0..MaxSeed
MaxIndex == 3        \* indicesToCard is called with indices -1..MaxIndex
MaxDistinct == 5     \* longest list of pairwise different cards handed to the solver
MaxRegions == 3      \* most candidate regions of an image handed to the detector harness
MaxContours == 2     \* most contours the first strategy finds in a frame of the detector harness
MaxOffset == 10      \* largest x offset of a box handed to the detector harness
MaxSide == 3         \* longest side factor of a quadrilateral of the harness

\* ------------------------------------------------------------ solver.ts
SHAPES == <<"diamond", "oval", "squiggle">>
COLORS == <<"red", "green", "purple">>
NUMBERS == <<1, 2, 3>>
SHADINGS == <<"solid", "striped", "empty">>

At(s, i) == s[i + 1]

MinOf(S) == CHOOSE x \in S : \A y \in S : x <= y

\* new Set([v1, v2, v3]).size !== 2
isIdenticalOrDistinct_TwoIsValid(v1, v2, v3) == Cardinality({v1, v2, v3}) # 3
isIdenticalOrDistinct(v1, v2, v3) == Cardinality({v1, v2, v3}) # 2

isValidSet_NoShading(c1, c2, c3) ==
    /\ isIdenticalOrDistinct(c1.shape, c2.shape, c3.shape)
    /\ isIdenticalOrDistinct(c1.color, c2.color, c3.color)
    /\ isIdenticalOrDistinct(c1.number, c2.number, c3.number)
isValidSet(c1, c2, c3) ==
    /\ isIdenticalOrDistinct(c1.shape, c2.shape, c3.shape)
    /\ isIdenticalOrDistinct(c1.color, c2.color, c3.color)
    /\ isIdenticalOrDistinct(c1.number, c2.number, c3.number)
    /\ isIdenticalOrDistinct(c1.shading, c2.shading, c3.shading)

SetResult(cards, i, j, k) ==
    [cards |-> <<At(cards, i), At(cards, j), At(cards, k)>>, indices |-> <<i, j, k>>]

\* the three nested for loops of findAllSets; each operator yields what its
\* loop pushes from the given index on, in the order of the pushes
RECURSIVE findAllSetsK(_, _, _, _)
findAllSetsK(cards, i, j, k) ==
    IF k < Len(cards)
    THEN (IF isValidSet(At(cards, i), At(cards, j), At(cards, k))
          THEN <<SetResult(cards, i, j, k)>>
          ELSE <<>>) \o findAllSetsK(cards, i, j, k + 1)
    ELSE <<>>

RECURSIVE findAllSetsJ(_, _, _)
findAllSetsJ(cards, i, j) ==
    IF j < Len(cards) - 1
    THEN findAllSetsK(cards, i, j, j + 1) \o findAllSetsJ(cards, i, j + 1)
    ELSE <<>>

RECURSIVE findAllSetsI(_, _)
findAllSetsI(cards, i) ==
    IF i < Len(cards) - 2
    THEN findAllSetsJ(cards, i, i + 1) \o findAllSetsI(cards, i + 1)
    ELSE <<>>

findAllSets(cards) == findAllSetsI(cards, 0)

\* `${shape}-${color}-${number}-${shading}`
cardKey(c) ==
    c.shape \o "-" \o c.color \o "-" \o ToString(c.number) \o "-" \o c.shading

\* cardMap.set(key, idx): a later card with the same key replaces the index
mapSet(m, key, idx) ==
    [x \in (DOMAIN m) \cup {key} |-> IF x = key THEN idx ELSE m[x]]

\* cards.forEach((card, idx) => cardMap.set(key, idx))
RECURSIVE buildCardMap(_, _, _)
buildCardMap(cards, idx, m) ==
    IF idx < Len(cards)
    THEN buildCardMap(cards, idx + 1, mapSet(m, cardKey(At(cards, idx)), idx))
    ELSE m

EmptyMap == [x \in {} |-> 0]

\* allValues.find(v => v !== v1 && v !== v2)
getThirdValue_FirstOther(v1, v2, allValues) ==
    IF v1 = v2
    THEN v1
    ELSE LET hit == {n \in 1..Len(allValues) : allValues[n] # v1}
         IN  IF hit = {} THEN Undefined ELSE allValues[MinOf(hit)]
getThirdValue(v1, v2, allValues) ==
    IF v1 = v2
    THEN v1
    ELSE LET hit == {n \in 1..Len(allValues) : allValues[n] # v1 /\ allValues[n] # v2}
         IN  IF hit = {} THEN Undefined ELSE allValues[MinOf(hit)]

computeRequiredThirdCard(c1, c2) ==
    [shape |-> getThirdValue(c1.shape, c2.shape, SHAPES),
     color |-> getThirdValue(c1.color, c2.color, COLORS),
     number |-> getThirdValue(c1.number, c2.number, NUMBERS),
     shading |-> getThirdValue(c1.shading, c2.shading, SHADINGS)]

\* the body of the inner loop of findAllSetsOptimized: what one pair pushes
optimizedEmit_NoGuard(cards, cardMap, i, j) ==
    LET key == cardKey(computeRequiredThirdCard(At(cards, i), At(cards, j)))
    IN  IF key \in DOMAIN cardMap
        THEN <<SetResult(cards, i, j, cardMap[key])>>
        ELSE <<>>
optimizedEmit(cards, cardMap, i, j) ==
    LET key == cardKey(computeRequiredThirdCard(At(cards, i), At(cards, j)))
    IN  IF key \in DOMAIN cardMap
        THEN LET k == cardMap[key]
             IN  IF k > j THEN <<SetResult(cards, i, j, k)>> ELSE <<>>
        ELSE <<>>

RECURSIVE optimizedJ_Backwards(_, _, _, _)
optimizedJ_Backwards(cards, cardMap, i, j) ==
    IF j < Len(cards)
    THEN optimizedJ_Backwards(cards, cardMap, i, j + 1) \o optimizedEmit(cards, cardMap, i, j)
    ELSE <<>>

RECURSIVE optimizedJ(_, _, _, _)
optimizedJ(cards, cardMap, i, j) ==
    IF j < Len(cards)
    THEN optimizedEmit(cards, cardMap, i, j) \o optimizedJ(cards, cardMap, i, j + 1)
    ELSE <<>>

RECURSIVE optimizedI(_, _, _)
optimizedI(cards, cardMap, i) ==
    IF i < Len(cards) - 1
    THEN optimizedJ(cards, cardMap, i, i + 1) \o optimizedI(cards, cardMap, i + 1)
    ELSE <<>>

findAllSetsOptimized(cards) ==
    optimizedI(cards, buildCardMap(cards, 0, EmptyMap), 0)

\* analyzeSet's local analyze: new Set(values).size === 1 ? 'all same' : 'all different'
analyze_Revalidating(values) ==
    LET unique == Cardinality({values[i] : i \in 1..Len(values)})
    IN  IF unique = 1 THEN "all same" ELSE IF unique = 3 THEN "all different" ELSE "invalid"
analyze(values) ==
    LET unique == Cardinality({values[i] : i \in 1..Len(values)})
    IN  IF unique = 1 THEN "all same" ELSE "all different"

analyzeSet(cards) ==
    [shape |-> analyze([i \in 1..Len(cards) |-> cards[i].shape]),
     color |-> analyze([i \in 1..Len(cards) |-> cards[i].color]),
     number |-> analyze([i \in 1..Len(cards) |-> cards[i].number]),
     shading |-> analyze([i \in 1..Len(cards) |-> cards[i].shading])]

\* ------------------------------------------------- solver harness inputs
\* The cards the harness draws from: A, B, C of the specification's scenario
\* (a Set that differs in shape only), D of its non-Set scenario, and cards
\* that differ from C in exactly one of shading, number and color, so that
\* every property decides some triple on its own.
PropCard(s, c, n, h) ==
    [shape |-> SHAPES[s], color |-> COLORS[c], number |-> NUMBERS[n], shading |-> SHADINGS[h]]

\* a test card: its id is its position in the list, the other fields are props
TestCard(id, props) ==
    [id |-> id, shape |-> props.shape, color |-> props.color,
     number |-> props.number, shading |-> props.shading]

CardPool ==
    { PropCard(1, 1, 1, 1), PropCard(2, 1, 1, 1), PropCard(3, 1, 1, 1),
      PropCard(2, 1, 2, 1), PropCard(3, 1, 1, 2), PropCard(3, 1, 2, 1),
      PropCard(3, 2, 1, 1), PropCard(1, 2, 1, 1), PropCard(2, 3, 1, 1) }

\* ---------------------------------------------------- solver harness
NoCall == [fn |-> "none"]
NotRun == [run |-> FALSE]
Ran(sets) == [run |-> TRUE, sets |-> sets]

SolverInit ==
    /\ sCards = <<>>
    /\ sBrute = NotRun
    /\ sOptimized = NotRun

\* a test builds its card list, one card after the other
AddCard(props) ==
    /\ Len(sCards) < MaxCards
    /\ sBrute = NotRun
    /\ sOptimized = NotRun
    /\ sCards' = Append(sCards, TestCard(Len(sCards), props))
    /\ UNCHANGED <<sBrute, sOptimized>>

RunFindAllSets ==
    /\ sBrute = NotRun
    /\ sBrute' = Ran(findAllSets(sCards))
    /\ UNCHANGED <<sCards, sOptimized>>

RunFindAllSetsOptimized ==
    /\ sOptimized = NotRun
    /\ sOptimized' = Ran(findAllSetsOptimized(sCards))
    /\ UNCHANGED <<sCards, sBrute>>

\* ------------------------------------------------- classifier, detector
\* classify resolves with four class indices, each the argmax of 3 logits
\* (inference.ts postprocess); the model draws them from this sample
ClassPool ==
    { [shape |-> 0, color |-> 0, number |-> 0, shading |-> 0],
      [shape |-> 1, color |-> 2, number |-> 1, shading |-> 0] }

\* SHAPES[shapeIdx]: an index outside the table reads undefined
tableAt(table, idx) == IF idx \in 0..(Len(table) - 1) THEN table[idx + 1] ELSE Undefined

indicesToCard_ColorByShape(shapeIdx, colorIdx, numberIdx, shadingIdx) ==
    [shape |-> tableAt(SHAPES, shapeIdx), color |-> tableAt(COLORS, shapeIdx),
     number |-> tableAt(NUMBERS, numberIdx), shading |-> tableAt(SHADINGS, shadingIdx)]
indicesToCard(shapeIdx, colorIdx, numberIdx, shadingIdx) ==
    [shape |-> tableAt(SHAPES, shapeIdx), color |-> tableAt(COLORS, colorIdx),
     number |-> tableAt(NUMBERS, numberIdx), shading |-> tableAt(SHADINGS, shadingIdx)]

\* typeof cv !== 'undefined' && typeof cv.Mat !== 'undefined'
isOpenCVLoaded(cvNow) == cvNow = "loaded"

\* generateMockCards' grid
MockCount == 12
cardWidth == 150
cardHeight == 200
cols == 4
startX == 100
startY == 100
gap == 20

gridBBox_SingleRow(i) ==
    LET col == i % cols
    IN  << startX + col * (cardWidth + gap), startY,
           startX + col * (cardWidth + gap) + cardWidth, startY + cardHeight >>
gridBBox(i) ==
    LET col == i % cols
        row == i \div cols
    IN  << startX + col * (cardWidth + gap),
           startY + row * (cardHeight + gap),
           startX + col * (cardWidth + gap) + cardWidth,
           startY + row * (cardHeight + gap) + cardHeight >>

\* Math.random(): a value x / RandomDen of a stream that a seed starts; confidences
\* are kept in units of 1 / ConfidenceDen
RandomDen == 16
ConfidenceDen == 160
\* Math.floor(Math.random() * 3)
floorTimes3(x) == (x * 3) \div RandomDen

\* the x of the n-th value Math.random() returns in the stream of a seed (n = 1, 2, ...)
randomAt(seed, n) == (seed + 7 * n) % RandomDen

\* one pass of generateMockCards' loop draws shape, color, number, shading and
\* confidence, in this order
mockCard(seed, i) ==
    [id |-> i, bbox |-> gridBBox(i), corners |-> <<>>,
     shape |-> SHAPES[floorTimes3(randomAt(seed, 5 * i + 1)) + 1],
     color |-> COLORS[floorTimes3(randomAt(seed, 5 * i + 2)) + 1],
     number |-> NUMBERS[floorTimes3(randomAt(seed, 5 * i + 3)) + 1],
     shading |-> SHADINGS[floorTimes3(randomAt(seed, 5 * i + 4)) + 1],
     confidence |-> (9 * ConfidenceDen) \div 10
                    + (randomAt(seed, 5 * i + 5) * ConfidenceDen) \div (10 * RandomDen)]

RECURSIVE mockLoop(_, _)
mockLoop(seed, i) ==
    IF i < MockCount
    THEN <<mockCard(seed, i)>> \o mockLoop(seed, i + 1)
    ELSE <<>>

generateMockCards(seed) == mockLoop(seed, 0)

\* ------------------------------------------------- opencv-detector.ts
\* A point is <<x, y>>, a bbox <<x1, y1, x2, y2>>.
SeqMin(seq) == CHOOSE v \in {seq[i] : i \in 1..Len(seq)} : \A i \in 1..Len(seq) : v <= seq[i]
SeqMax(seq) == CHOOSE v \in {seq[i] : i \in 1..Len(seq)} : \A i \in 1..Len(seq) : v >= seq[i]
\* seq.indexOf(v): the first position that holds v
indexOf(seq, v) == MinOf({i \in 1..Len(seq) : seq[i] = v})

orderCorners(pts) ==
    LET sum == [i \in 1..Len(pts) |-> pts[i][1] + pts[i][2]]
        diff == [i \in 1..Len(pts) |-> pts[i][2] - pts[i][1]]
        tl == pts[indexOf(sum, SeqMin(sum))]
        br == pts[indexOf(sum, SeqMax(sum))]
        tr == pts[indexOf(diff, SeqMin(diff))]
        bl == pts[indexOf(diff, SeqMax(diff))]
    IN  <<tl, tr, br, bl>>

Max2(a, b) == IF a >= b THEN a ELSE b
Min2(a, b) == IF a <= b THEN a ELSE b

\* overlapArea > minArea * threshold, the threshold given in tenths
rectanglesOverlap_AtLeast(a, b, thresholdTenths) ==
    LET overlapX == Max2(0, Min2(a[3], b[3]) - Max2(a[1], b[1]))
        overlapY == Max2(0, Min2(a[4], b[4]) - Max2(a[2], b[2]))
        minArea == Min2((a[3] - a[1]) * (a[4] - a[2]), (b[3] - b[1]) * (b[4] - b[2]))
    IN  overlapX * overlapY * 10 >= minArea * thresholdTenths
rectanglesOverlap(a, b, thresholdTenths) ==
    LET overlapX == Max2(0, Min2(a[3], b[3]) - Max2(a[1], b[1]))
        overlapY == Max2(0, Min2(a[4], b[4]) - Max2(a[2], b[2]))
        overlapArea == overlapX * overlapY
        areaA == (a[3] - a[1]) * (a[4] - a[2])
        areaB == (b[3] - b[1]) * (b[4] - b[2])
        minArea == Min2(areaA, areaB)
    IN  overlapArea * 10 > minArea * thresholdTenths

\* a CardDetection as detectWithStrategy pushes it: corners ordered, bbox their hull
Detection(pts, confidence) ==
    LET ordered == orderCorners(pts)
        xs == [i \in 1..Len(ordered) |-> ordered[i][1]]
        ys == [i \in 1..Len(ordered) |-> ordered[i][2]]
    IN  [bbox |-> <<SeqMin(xs), SeqMin(ys), SeqMax(xs), SeqMax(ys)>>,
         corners |-> ordered, confidence |-> confidence]

\* An image is given by its height and by the regions each of the three
\* strategies finds in it (image.found[s], what detectWithStrategy returns).
detectWithStrategy(image, s) == image.found[s]

\* allCards.some(existing => rectanglesOverlap(existing.bbox, det.bbox, 0.4))
isDuplicate_LastOnly(allCards, det) ==
    /\ Len(allCards) > 0
    /\ rectanglesOverlap(allCards[Len(allCards)].bbox, det.bbox, 4)
isDuplicate(allCards, det) ==
    \E n \in 1..Len(allCards) : rectanglesOverlap(allCards[n].bbox, det.bbox, 4)

\* the inner loop: detections[n..] are pushed unless they duplicate a card kept so far
RECURSIVE addDetections(_, _, _)
addDetections(allCards, detections, n) ==
    IF n > Len(detections) THEN allCards
    ELSE addDetections(IF isDuplicate(allCards, detections[n]) THEN allCards
                       ELSE Append(allCards, detections[n]),
                       detections, n + 1)

\* the loop over the strategies, from strategy s on
RECURSIVE mergeStrategies(_, _, _)
mergeStrategies(image, s, allCards) ==
    IF s > Len(image.found) THEN allCards
    ELSE mergeStrategies(image, s + 1, addDetections(allCards, detectWithStrategy(image, s), 1))

\* the comparator of allCards.sort: Math.floor(centerY / (height / 6)), then centerX
rowOf(det, height) == (3 * (det.bbox[2] + det.bbox[4])) \div height
comesBefore_ByXOnly(a, b, height) == a.bbox[1] + a.bbox[3] < b.bbox[1] + b.bbox[3]
comesBefore(a, b, height) ==
    IF rowOf(a, height) # rowOf(b, height) THEN rowOf(a, height) < rowOf(b, height)
    ELSE a.bbox[1] + a.bbox[3] < b.bbox[1] + b.bbox[3]

\* Array.prototype.sort is stable: a card goes before the first one it precedes
insertSorted(sorted, det, height) ==
    LET before == {i \in 1..Len(sorted) : comesBefore(det, sorted[i], height)}
        at == IF before = {} THEN Len(sorted) + 1 ELSE MinOf(before)
    IN  SubSeq(sorted, 1, at - 1) \o <<det>> \o SubSeq(sorted, at, Len(sorted))

RECURSIVE sortByPosition(_, _, _)
sortByPosition(cards, n, height) ==
    IF n = 0 THEN <<>>
    ELSE insertSorted(sortByPosition(cards, n - 1, height), cards[n], height)

\* detectCardsOpenCV: [] without cv; an exception when cv is there but its
\* runtime is not (cv.matFromImageData, new cv.Mat) or when the engine raises
\* one; else the merged detections in reading order
detectCardsOpenCV(cvNow, image, engineThrows) ==
    IF cvNow = "undefined" THEN [kind |-> "return", dets |-> <<>>]
    ELSE IF cvNow # "loaded" \/ engineThrows THEN [kind |-> "throw"]
    ELSE LET allCards == mergeStrategies(image, 1, <<>>)
         IN  [kind |-> "return", dets |-> sortByPosition(allCards, Len(allCards), image.height)]

\* ------------------------------ detection from the contours of a frame
\* A frame is given by its width and height in pixels and by the contours
\* cv.findContours reports to each strategy. A contour is given by what the
\* engine reports of it: contourArea in hundredths of a square pixel (area100),
\* the sides of minAreaRect in tenths of a pixel (w10, h10), the points of that
\* rectangle in tenths of a pixel of the working image (pts), and the standard
\* deviation of the saturation inside boundingRect (satStd). Regions come out
\* in tenths of a pixel of the frame.
maxWidth == 1200

\* Math.round(n / d) for n >= 0, d > 0
round(n, d) == (2 * n + d) \div (2 * d)

\* the image the strategies work on and the scale, a fraction num / den
workingImage(width, height) ==
    IF width > maxWidth
    THEN [cols |-> maxWidth, rows |-> round(height * maxWidth, width),
          scale |-> [num |-> maxWidth, den |-> width], resized |-> TRUE]
    ELSE [cols |-> width, rows |-> height, scale |-> [num |-> 1, den |-> 1], resized |-> FALSE]

\* v / scale
unscale(v, scale) == (v * scale.den) \div scale.num

\* the region pushed for a contour: the points over scale, ordered, their hull,
\* and the fill ratio area / (w * h) as confidence
contourRegion(c, img) ==
    Detection([i \in 1..Len(c.pts) |->
                  <<unscale(c.pts[i][1], img.scale), unscale(c.pts[i][2], img.scale)>>],
              [num |-> c.area100, den |-> c.w10 * c.h10])

\* visibleRatio < 0.85; a division by zero gives NaN (0 / 0, never below) or an infinity
mostlyOutside(bbox, img) ==
    LET imgW == unscale(10 * img.cols, img.scale)
        imgH == unscale(10 * img.rows, img.scale)
        bboxW == bbox[3] - bbox[1]
        bboxH == bbox[4] - bbox[2]
        visibleX == Min2(bbox[3], imgW) - Max2(bbox[1], 0)
        visibleY == Min2(bbox[4], imgH) - Max2(bbox[2], 0)
    IN  IF bboxW * bboxH = 0 THEN visibleX * visibleY < 0
        ELSE 20 * visibleX * visibleY < 17 * bboxW * bboxH

\* the first filter of the loop body that drops the contour, "none" if it is pushed
firstFailure(c, img) ==
    LET imgArea == img.rows * img.cols
        rectArea100 == c.w10 * c.h10
    IN  IF 2 * c.area100 < imgArea THEN "areaMin"                \* area < imgArea * 0.005
        ELSE IF c.area100 > 50 * imgArea THEN "areaMax"          \* area > imgArea * 0.50
        ELSE IF rectArea100 <= 100 THEN "rectArea"               \* rectArea <= 1
        ELSE IF 10 * c.area100 < 6 * rectArea100 THEN "fillRatio" \* fillRatio < 0.60
        ELSE IF \/ /\ 10 * c.h10 < 11 * Max2(10, c.w10)          \* aspect < 1.1, where
                   /\ 10 * c.w10 < 11 * Max2(10, c.h10)          \* aspect is the larger of
                \/ 10 * c.h10 > 22 * Max2(10, c.w10)             \* h / max(1, w) and
                \/ 10 * c.w10 > 22 * Max2(10, c.h10)             \* w / max(1, h); or > 2.2
             THEN "aspect"
        ELSE IF c.satStd < 8 THEN "satStd"
        ELSE IF mostlyOutside(contourRegion(c, img).bbox, img) THEN "visibleRatio"
        ELSE "none"

\* Native buffers: <<name, s, i>> is the buffer the source calls name, of
\* contour i of strategy s (0, 0 for those of detectCardsOpenCV itself).
Buffers(names, s, i) == [n \in 1..Len(names) |-> <<names[n], s, i>>]
strategyBuffers ==
    <<"hsv", "hsvSplit", "S", "V", "sMask", "vMask", "whiteMask", "gray", "edges",
      "combined", "k", "contours", "hierarchy">>
roiBuffers == <<"roi", "roiHsv", "roiChannels", "roiS", "mean", "stddev">>

\* the loop over the contours from contour i on: the cards pushed, and the
\* buffers allocated and deleted, in order
\* one pass of the loop body on contour i, failure being the filter that drops
\* it: c and, from the saturation check on, the buffers of the ROI analysis
\* are allocated and deleted, and the region is pushed if no filter drops it
loopBody(acc, c, img, s, i, failure) ==
    [cards |-> IF failure = "none" THEN Append(acc.cards, contourRegion(c, img)) ELSE acc.cards,
     allocated |-> acc.allocated \o <<<<"c", s, i>>>>
                      \o (IF failure \in {"satStd", "visibleRatio", "none"}
                          THEN Buffers(roiBuffers, s, i) ELSE <<>>),
     released |-> acc.released
                      \o (IF failure \in {"satStd", "visibleRatio", "none"}
                          THEN Buffers(roiBuffers, s, i) ELSE <<>>)
                      \o <<<<"c", s, i>>>>]

RECURSIVE contourLoop(_, _, _, _, _)
contourLoop(contours, i, img, s, acc) ==
    IF i > Len(contours) THEN acc
    ELSE contourLoop(contours, i + 1, img, s,
                     loopBody(acc, contours[i], img, s, i, firstFailure(contours[i], img)))

\* the cleanup at the end of detectWithStrategy
strategyCleanup(loop, own) ==
    [cards |-> loop.cards, allocated |-> loop.allocated, released |-> loop.released \o own]

\* detectWithStrategy on the contours found: buffers, loop, cleanup
strategyRun(contours, img, s) ==
    strategyCleanup(contourLoop(contours, 1, img, s,
                                [cards |-> <<>>, allocated |-> Buffers(strategyBuffers, s, 0),
                                 released |-> <<>>]),
                    Buffers(strategyBuffers, s, 0))

\* where the engine raises an exception in detectCardsOpenCV, if it does
ThrowPoints == {"none", "cvtColor", "resize", "findContours"}

\* detectCardsOpenCV on a frame: src and bgr, the resize, the three strategies
\* merged and sorted, the cleanup. An exception of the engine leaves the
\* function where it is raised (there is no try / finally).
detectFrameReturn(frame, img, runs, top, resized) ==
    [kind |-> "return",
     dets |-> detectCardsOpenCV("loaded", [height |-> 10 * frame.height,
                                           found |-> [s \in 1..3 |-> runs[s].cards]],
                                FALSE).dets,
     found |-> [s \in 1..3 |-> runs[s].cards],
     working |-> img,
     allocated |-> top \o resized \o runs[1].allocated \o runs[2].allocated \o runs[3].allocated,
     released |-> runs[1].released \o runs[2].released \o runs[3].released \o top \o resized]

detectFrameThrow(img, allocated) ==
    [kind |-> "throw", dets |-> <<>>, found |-> <<>>, working |-> img,
     allocated |-> allocated, released |-> <<>>]

detectFrameOn(cvNow, frame, throwAt, img, top, resized) ==
    IF cvNow = "undefined"
    THEN [kind |-> "return", dets |-> <<>>, found |-> <<>>, working |-> img,
          allocated |-> <<>>, released |-> <<>>]
    ELSE IF cvNow # "loaded" THEN detectFrameThrow(img, <<>>)
    ELSE IF throwAt = "cvtColor" THEN detectFrameThrow(img, top)
    ELSE IF throwAt = "resize" /\ img.resized THEN detectFrameThrow(img, top \o resized)
    ELSE IF throwAt = "findContours"
         THEN detectFrameThrow(img, top \o resized \o Buffers(strategyBuffers, 1, 0))
    ELSE detectFrameReturn(frame, img, [s \in 1..3 |-> strategyRun(frame.contours[s], img, s)],
                           top, resized)

detectFrame(cvNow, frame, throwAt) ==
    detectFrameOn(cvNow, frame, throwAt, workingImage(frame.width, frame.height),
                  Buffers(<<"src", "bgr">>, 0, 0),
                  IF frame.width > maxWidth THEN Buffers(<<"resized">>, 0, 0) ELSE <<>>)

\* The images handed to processFrame: n card regions on the slots of the
\* 4-column grid, each found by every strategy.
ImageHeight == 720
SceneRegion(k) ==
    LET b == gridBBox(k)
    IN  Detection(<< <<b[1], b[4]>>, <<b[1], b[2]>>, <<b[3], b[2]>>, <<b[3], b[4]>> >>,
                  ConfidenceDen - 8)

GridImage(n) ==
    [height |-> ImageHeight,
     found |-> [s \in 1..3 |-> [k \in 1..n |-> SceneRegion(k - 1)]]]

\* the squared length of the edge from p to q
dist2(p, q) == (q[1] - p[1]) * (q[1] - p[1]) + (q[2] - p[2]) * (q[2] - p[2])

\* warpCardToImageData's source points: [tl, tr, br, bl] = [bl, tl, tr, br] when
\* Math.hypot of the top edge exceeds that of the left edge (compared by squares)
warpSourceCorners_AsGiven(corners) == corners
warpSourceCorners(corners) ==
    LET tl == corners[1]
        tr == corners[2]
        br == corners[3]
        bl == corners[4]
    IN  IF dist2(tl, tr) > dist2(tl, bl) THEN <<bl, tl, tr, br>> ELSE corners

\* the ImageData it returns: srcPts are mapped onto the corners of an outW x outH image
warpedImage(corners, outW, outH) ==
    [null |-> FALSE, srcPts |-> warpSourceCorners(corners), width |-> outW, height |-> outH]

\* the buffers of warpCardToImageData; an exception of the engine is raised by
\* cv.cvtColor, cv.getPerspectiveTransform or cv.warpPerspective
WarpThrowPoints == {"cvtColor", "getPerspectiveTransform", "warpPerspective"}
warpBuffers(cvNow, engineThrows, throwAt) ==
    LET all == Buffers(<<"src", "bgr", "srcPts", "dstPts", "M", "warped", "rgba">>, 0, 0)
    IN  IF cvNow # "loaded" THEN [allocated |-> <<>>, released |-> <<>>]
        ELSE IF ~engineThrows THEN [allocated |-> all, released |-> all]
        ELSE [allocated |-> SubSeq(all, 1, CASE throwAt = "cvtColor" -> 2
                                              [] throwAt = "getPerspectiveTransform" -> 4
                                              [] OTHER -> 6),
              released |-> <<>>]

\* warpCardToImageData: null without cv, an exception of the engine, or an image
warpCardToImageData(cvNow, engineThrows) ==
    IF cvNow = "undefined" THEN "null"
    ELSE IF cvNow # "loaded" \/ engineThrows THEN "throw"
    ELSE "image"

\* ------------------------------------------------------ useSetSolver.ts
Calls == 1..MaxCalls
Seeds == 0..MaxSeed
Images == {GridImage(n) : n \in 0..MaxDetections}

\* results is null or a ProcessedResult; timestamp and inferenceTime are clock
\* readings and are left out
NoResult == [null |-> TRUE]
ProcessedResult(cards) == [null |-> FALSE, cards |-> cards, sets |-> findAllSets(cards)]

\* An invocation of processFrame that is suspended at await classify(...) keeps
\* its locals; invoked, ndet, skipped and failed record what it has done so far,
\* classifying the detections whose classify call has started and not completed.
IdleCall ==
    [pc |-> "idle", dets |-> <<>>, idx |-> 0, cards |-> <<>>, sessionOk |-> FALSE,
     invoked |-> {}, skipped |-> {}, failed |-> {}, classifying |-> {}]

\* serial is the number of invocations that have returned so far, modulo 2
NoneSettled ==
    [serial |-> 0, call |-> 0, outcome |-> "none", ret |-> NoResult, invoked |-> {},
     ndet |-> 0, skipped |-> {}, failed |-> {}]

\* the App component with no handler running
AppIdle == [isProcessing |-> FALSE, pc |-> "idle", call |-> 0]

InFlight == {c \in Calls : calls[c].pc = "awaitClassify"}

\* if (isProcessingRef.current) return null
guardBlocks_Never(flag) == FALSE
guardBlocks(flag) == flag

\* a dropped call returns before the try block: the flag is left as it is
guardAfterDrop_Cleared(flag) == FALSE
guardAfterDrop(flag) == flag

\* finally { isProcessingRef.current = false }
guardAfterExit_OnSuccessOnly(kind, flag) == IF kind = "finish" THEN FALSE ELSE flag
guardAfterExit(kind, flag) == FALSE

\* the catch block logs and returns null: results keeps its value
resultsAfterError_Partial(old, cards) == [null |-> FALSE, cards |-> cards, sets |-> <<>>]
resultsAfterError(old, cards) == old

\* id: idx
cardId_Shifted(idx, cards) == idx + 1
cardId(idx, cards) == idx

newCard(idx, detection, props, cards) ==
    [id |-> cardId(idx, cards), bbox |-> detection.bbox, corners |-> detection.corners,
     confidence |-> detection.confidence, shape |-> props.shape, color |-> props.color,
     number |-> props.number, shading |-> props.shading]

\* (a loop that starts the classification of every remaining detection at once)
RECURSIVE detectionLoop_AllAtOnce(_, _, _, _, _, _)
detectionLoop_AllAtOnce(dets, idx, cards, skipped, invoked, engineThrows) ==
    IF idx < Len(dets)
    THEN LET warped == warpCardToImageData(cv, engineThrows)
             inv == invoked \cup {"warpCardToImageData"}
         IN  CASE warped = "null" ->
                    detectionLoop_AllAtOnce(dets, idx + 1, cards, skipped \cup {idx}, inv, engineThrows)
               [] warped = "throw" ->
                    [kind |-> "throw", dets |-> dets, idx |-> idx, cards |-> cards,
                     skipped |-> skipped, failed |-> skipped \cup {idx}, invoked |-> inv]
               [] OTHER ->
                    [kind |-> "await", dets |-> dets, idx |-> idx, cards |-> cards,
                     skipped |-> skipped, failed |-> skipped,
                     invoked |-> inv \cup {"classify"}, started |-> idx..(Len(dets) - 1)]
    ELSE [kind |-> "finish", dets |-> dets, idx |-> idx, cards |-> cards,
          skipped |-> skipped, failed |-> skipped, invoked |-> invoked]

\* The for loop over detections from idx on, run until it suspends at
\* await classify(...), leaves the loop, or an exception leaves it. No await
\* lies between two rectifications unless a classification does, so one run
\* reads one value of cv.
RECURSIVE detectionLoop(_, _, _, _, _, _)
detectionLoop(dets, idx, cards, skipped, invoked, engineThrows) ==
    IF idx < Len(dets)
    THEN LET warped == warpCardToImageData(cv, engineThrows)
             inv == invoked \cup {"warpCardToImageData"}
         IN  CASE warped = "null" ->
                    detectionLoop(dets, idx + 1, cards, skipped \cup {idx}, inv, engineThrows)
               [] warped = "throw" ->
                    [kind |-> "throw", dets |-> dets, idx |-> idx, cards |-> cards,
                     skipped |-> skipped, failed |-> skipped \cup {idx}, invoked |-> inv]
               [] OTHER ->
                    [kind |-> "await", dets |-> dets, idx |-> idx, cards |-> cards,
                     skipped |-> skipped, failed |-> skipped,
                     invoked |-> inv \cup {"classify"}, started |-> {idx}]
    ELSE [kind |-> "finish", dets |-> dets, idx |-> idx, cards |-> cards,
          skipped |-> skipped, failed |-> skipped, invoked |-> invoked]

\* cards = generateMockCards()
mockBody(seed) ==
    [kind |-> "finish", dets |-> <<>>, idx |-> 0, cards |-> generateMockCards(seed),
     skipped |-> {}, failed |-> {}, invoked |-> {"generateMockCards"}]

\* detectCardsOpenCV(imageData), then the loop up to its first await, its end
\* or the first exception
detectBody(image, detectThrows, engineThrows) ==
    LET detections == detectCardsOpenCV(cv, image, detectThrows)
    IN  IF detections.kind = "throw"
        THEN [kind |-> "throw", dets |-> <<>>, idx |-> 0, cards |-> <<>>, skipped |-> {},
              failed |-> {}, invoked |-> {"detectCardsOpenCV"}]
        ELSE detectionLoop(detections.dets, 0, <<>>, {}, {"detectCardsOpenCV"},
                           engineThrows)

\* What a run of processFrame's body does to the hook: it suspends at the
\* await; or it publishes and returns the result; or the catch block returns
\* null. The finally block runs in the last two.
settle(c, r, flag) ==
    CASE r.kind = "await" ->
           /\ calls' = [calls EXCEPT ![c] =
                  [pc |-> "awaitClassify", dets |-> r.dets, idx |-> r.idx, cards |-> r.cards,
                   sessionOk |-> (classifier = "ready"), invoked |-> r.invoked,
                   skipped |-> r.skipped, failed |-> r.failed,
                   classifying |-> r.started]]
           /\ isProcessingRef' = flag
           /\ results' = results
           /\ lastSettled' = lastSettled
      [] r.kind = "finish" ->
           LET result == ProcessedResult(r.cards)
           IN  /\ calls' = [calls EXCEPT ![c] = IdleCall]
               /\ isProcessingRef' = guardAfterExit(r.kind, flag)
               /\ results' = result
               /\ lastSettled' =
                      [serial |-> 1 - lastSettled.serial, call |-> c,
                       outcome |-> "result", ret |-> result,
                       invoked |-> r.invoked \cup {"findAllSets"}, ndet |-> Len(r.dets),
                       skipped |-> r.skipped, failed |-> r.failed]
      [] OTHER ->
           /\ calls' = [calls EXCEPT ![c] = IdleCall]
           /\ isProcessingRef' = guardAfterExit(r.kind, flag)
           /\ results' = resultsAfterError(results, r.cards)
           /\ lastSettled' =
                  [serial |-> 1 - lastSettled.serial, call |-> c, outcome |-> "error",
                   ret |-> NoResult, invoked |-> r.invoked,
                   ndet |-> Len(r.dets), skipped |-> r.skipped, failed |-> r.failed]

\* processFrame(imageData) is called; the invocation takes the first free slot
ProcessFrame(c) ==
    /\ calls[c].pc = "idle"
    /\ \A d \in Calls : d < c => calls[d].pc # "idle"
    /\ IF guardBlocks(isProcessingRef)
       THEN /\ calls' = calls
            /\ isProcessingRef' = guardAfterDrop(isProcessingRef)
            /\ results' = results
            /\ lastSettled' = [NoneSettled EXCEPT !.serial = 1 - lastSettled.serial,
                                                  !.call = c, !.outcome = "dropped"]
       ELSE IF mockMode \/ classifier = "null" \/ ~isOpenCVLoaded(cv)
            THEN \E seed \in Seeds : settle(c, mockBody(seed), TRUE)
            ELSE \E image \in Images, detectThrows \in BOOLEAN, engineThrows \in BOOLEAN :
                     settle(c, detectBody(image, detectThrows, engineThrows), TRUE)
    /\ UNCHANGED <<mockMode, isModelLoaded, classifier, cv, sCards, sBrute, sOptimized, fnCall>>

\* the classification a call awaits resolves: the card is pushed and the loop goes on
ClassifyResolve(c, classification, engineThrows) ==
    /\ calls[c].pc = "awaitClassify"
    /\ calls[c].sessionOk
    /\ LET me == calls[c]
           props == indicesToCard(classification.shape, classification.color,
                                  classification.number, classification.shading)
           cards == Append(me.cards, newCard(me.idx, At(me.dets, me.idx), props, me.cards))
       IN  settle(c, detectionLoop(me.dets, me.idx + 1, cards, me.skipped, me.invoked,
                                   engineThrows), isProcessingRef)
    /\ UNCHANGED <<mockMode, isModelLoaded, classifier, cv, sCards, sBrute, sOptimized, fnCall>>

\* the classification a call awaits rejects ('Model not loaded', or the session's run fails)
ClassifyReject(c) ==
    /\ calls[c].pc = "awaitClassify"
    /\ LET me == calls[c]
       IN  settle(c, [kind |-> "throw", dets |-> me.dets, idx |-> me.idx, cards |-> me.cards,
                      skipped |-> me.skipped, failed |-> me.failed \cup {me.idx},
                      invoked |-> me.invoked], isProcessingRef)
    /\ UNCHANGED <<mockMode, isModelLoaded, classifier, cv, sCards, sBrute, sOptimized, fnCall>>

\* clearResults()
ClearResults ==
    /\ results' = NoResult
    /\ UNCHANGED <<mockMode, isModelLoaded, classifier, cv, isProcessingRef, calls,
                   lastSettled, sCards, sBrute, sOptimized, fnCall>>

\* loadModels(): in mock mode it only sets isModelLoaded; else it creates the
\* classifier (no session yet) and awaits its load
LoadModels ==
    /\ classifier = "null"
    /\ IF mockMode
       THEN /\ isModelLoaded' = TRUE
            /\ classifier' = classifier
       ELSE /\ classifier' = "loading"
            /\ isModelLoaded' = isModelLoaded
    /\ UNCHANGED <<mockMode, cv, isProcessingRef, results, calls, lastSettled,
                   sCards, sBrute, sOptimized, fnCall>>

LoadResolve ==
    /\ classifier = "loading"
    /\ classifier' = "ready"
    /\ isModelLoaded' = TRUE
    /\ UNCHANGED <<mockMode, cv, isProcessingRef, results, calls, lastSettled,
                   sCards, sBrute, sOptimized, fnCall>>

LoadReject ==
    /\ classifier = "loading"
    /\ classifier' = "failed"
    /\ UNCHANGED <<mockMode, isModelLoaded, cv, isProcessingRef, results, calls, lastSettled,
                   sCards, sBrute, sOptimized, fnCall>>

\* the page's OpenCV.js script: cv is defined when the script has run, cv.Mat
\* when its runtime is initialised; cv is a global, which the page can also remove
CvScriptRuns ==
    /\ cv = "undefined"
    /\ cv' = "partial"
    /\ UNCHANGED <<mockMode, isModelLoaded, classifier, isProcessingRef, results, calls,
                   lastSettled, sCards, sBrute, sOptimized, fnCall>>

CvRuntimeReady ==
    /\ cv = "partial"
    /\ cv' = "loaded"
    /\ UNCHANGED <<mockMode, isModelLoaded, classifier, isProcessingRef, results, calls,
                   lastSettled, sCards, sBrute, sOptimized, fnCall>>

CvRemoved ==
    /\ cv # "undefined"
    /\ cv' = "undefined"
    /\ UNCHANGED <<mockMode, isModelLoaded, classifier, isProcessingRef, results, calls,
                   lastSettled, sCards, sBrute, sOptimized, fnCall>>

HookInit ==
    /\ mockMode \in BOOLEAN
    /\ isModelLoaded = mockMode
    /\ classifier = "null"
    /\ cv = "undefined"
    /\ isProcessingRef = FALSE
    /\ results = NoResult
    /\ calls = [c \in Calls |-> IdleCall]
    /\ lastSettled = NoneSettled

Init == HookInit /\ SolverInit /\ fnCall = NoCall /\ app = AppIdle

Next ==
    \/ LoadModels /\ UNCHANGED app
    \/ LoadResolve /\ UNCHANGED app
    \/ LoadReject /\ UNCHANGED app
    \/ CvScriptRuns /\ UNCHANGED app
    \/ CvRuntimeReady /\ UNCHANGED app
    \/ CvRemoved /\ UNCHANGED app
    \/ ClearResults /\ UNCHANGED app
    \/ \E c \in Calls : ProcessFrame(c) /\ UNCHANGED app
    \/ \E c \in Calls, classification \in ClassPool, engineThrows \in BOOLEAN :
          ClassifyResolve(c, classification, engineThrows) /\ UNCHANGED app
    \/ \E c \in Calls : ClassifyReject(c) /\ UNCHANGED app

Spec == Init /\ [][Next]_vars

\* ------------------------------------------------------- App (App.tsx)
\* The handlers of the App component that set isProcessing. The upload button
\* and the capture button are disabled while isProcessing is true, so one
\* handler runs at a time; app.pc is the await it is suspended at.

\* await processFrame(imageData): the call runs up to its first await or its return
callProcessFrame(pc) ==
    \E c \in Calls :
        /\ ProcessFrame(c)
        /\ app' = [isProcessing |-> TRUE, pc |-> pc, call |-> c]

\* handleCapture: setIsProcessing(true), the frame is drawn, processFrame is called
HandleCapture ==
    /\ isModelLoaded
    /\ ~app.isProcessing
    /\ callProcessFrame("captureProcessFrame")

\* handleImageUpload: setIsProcessing(true), await createImageBitmap(file)
HandleImageUpload ==
    /\ isModelLoaded
    /\ ~app.isProcessing
    /\ app' = [isProcessing |-> TRUE, pc |-> "createImageBitmap", call |-> 0]
    /\ UNCHANGED <<hookVars, solverVars, fnCall>>

\* the bitmap is decoded: with a 2d context processFrame is called, without
\* one the handler goes on to setIsProcessing(false)
BitmapDecoded(ctx) ==
    /\ app.pc = "createImageBitmap"
    /\ IF ctx THEN callProcessFrame("uploadProcessFrame")
       ELSE app' = AppIdle /\ UNCHANGED <<hookVars, solverVars, fnCall>>

\* createImageBitmap rejects: the catch block creates an Image, sets its
\* onload handler and its src, and returns
BitmapRejected ==
    /\ app.pc = "createImageBitmap"
    /\ app' = [app EXCEPT !.pc = "imageLoading"]
    /\ UNCHANGED <<hookVars, solverVars, fnCall>>

\* img.onload
ImageLoads(ctx) ==
    /\ app.pc = "imageLoading"
    /\ IF ctx THEN callProcessFrame("onloadProcessFrame")
       ELSE app' = AppIdle /\ UNCHANGED <<hookVars, solverVars, fnCall>>

\* the image does not load: its error event has no handler
ImageFails ==
    /\ app.pc = "imageLoading"
    /\ app' = [app EXCEPT !.pc = "loadFailed"]
    /\ UNCHANGED <<hookVars, solverVars, fnCall>>

\* processFrame has returned: the handler resumes and calls setIsProcessing(false)
HandlerResumes ==
    /\ app.pc \in {"captureProcessFrame", "uploadProcessFrame", "onloadProcessFrame"}
    /\ calls[app.call].pc = "idle"
    /\ app' = AppIdle
    /\ UNCHANGED <<hookVars, solverVars, fnCall>>

\* what the browser and the classifier settle sooner or later
BitmapSettles == (\E ctx \in BOOLEAN : BitmapDecoded(ctx)) \/ BitmapRejected
ImageSettles == (\E ctx \in BOOLEAN : ImageLoads(ctx)) \/ ImageFails
ClassifySettles ==
    \E c \in Calls :
        /\ \/ \E classification \in ClassPool, engineThrows \in BOOLEAN :
                  ClassifyResolve(c, classification, engineThrows)
           \/ ClassifyReject(c)
        /\ UNCHANGED app

AppNext ==
    \/ LoadModels /\ UNCHANGED app
    \/ LoadResolve /\ UNCHANGED app
    \/ LoadReject /\ UNCHANGED app
    \/ CvScriptRuns /\ UNCHANGED app
    \/ CvRuntimeReady /\ UNCHANGED app
    \/ CvRemoved /\ UNCHANGED app
    \/ ClearResults /\ UNCHANGED app
    \/ \E c \in Calls, classification \in ClassPool, engineThrows \in BOOLEAN :
          ClassifyResolve(c, classification, engineThrows) /\ UNCHANGED app
    \/ \E c \in Calls : ClassifyReject(c) /\ UNCHANGED app
    \/ HandleCapture
    \/ HandleImageUpload
    \/ \E ctx \in BOOLEAN : BitmapDecoded(ctx)
    \/ BitmapRejected
    \/ \E ctx \in BOOLEAN : ImageLoads(ctx)
    \/ ImageFails
    \/ HandlerResumes

\* Promises and load events settle, and a handler whose await has settled resumes.
AppSpec ==
    /\ Init
    /\ [][AppNext]_vars
    /\ WF_vars(BitmapSettles)
    /\ WF_vars(ImageSettles)
    /\ WF_vars(ClassifySettles)
    /\ WF_vars(HandlerResumes)

\* ------------------------------------------------ the solver on its own
SolverSpecInit ==
    /\ SolverInit
    /\ mockMode = FALSE
    /\ isModelLoaded = FALSE
    /\ classifier = "null"
    /\ cv = "undefined"
    /\ isProcessingRef = FALSE
    /\ results = NoResult
    /\ calls = [c \in Calls |-> IdleCall]
    /\ lastSettled = NoneSettled
    /\ fnCall = NoCall
    /\ app = AppIdle

SolverNext ==
    \/ \E props \in CardPool : AddCard(props) /\ UNCHANGED <<hookVars, fnCall, app>>
    \/ RunFindAllSets /\ UNCHANGED <<hookVars, fnCall, app>>
    \/ RunFindAllSetsOptimized /\ UNCHANGED <<hookVars, fnCall, app>>

SolverSpec == SolverSpecInit /\ [][SolverNext]_vars

\* ------------------------------------------- the exported functions
\* Each action is one call of a function with arguments drawn from a bounded
\* set; fnCall keeps the arguments, whether the call threw, and what it
\* returned. The functions keep no state, so a behaviour makes one call.
Returned(fn, args, ret) == [fn |-> fn, args |-> args, threw |-> FALSE, ret |-> ret]
Threw(fn, args) == [fn |-> fn, args |-> args, threw |-> TRUE]

IndexRange == (0 - 1)..MaxIndex

\* the four property tables, by position in a Card
propertyTable(t) ==
    CASE t = 1 -> SHAPES
      [] t = 2 -> COLORS
      [] t = 3 -> NUMBERS
      [] OTHER -> SHADINGS

CallIsIdenticalOrDistinct(t, i1, i2, i3) ==
    LET values == propertyTable(t)
        args == <<values[i1], values[i2], values[i3]>>
    IN  /\ fnCall = NoCall
        /\ fnCall' = Returned("isIdenticalOrDistinct", args,
                               isIdenticalOrDistinct(args[1], args[2], args[3]))
        /\ UNCHANGED <<hookVars, solverVars, app>>

\* indicesToCard has no throw statement and reads its tables unchecked
CallIndicesToCard(shapeIdx, colorIdx, numberIdx, shadingIdx) ==
    /\ fnCall = NoCall
    /\ fnCall' = Returned("indicesToCard", <<shapeIdx, colorIdx, numberIdx, shadingIdx>>,
                           indicesToCard(shapeIdx, colorIdx, numberIdx, shadingIdx))
    /\ UNCHANGED <<hookVars, solverVars, app>>

CallAnalyzeSet(p1, p2, p3) ==
    LET cards == <<TestCard(0, p1), TestCard(1, p2), TestCard(2, p3)>>
    IN  /\ fnCall = NoCall
        /\ fnCall' = Returned("analyzeSet", cards, analyzeSet(cards))
        /\ UNCHANGED <<hookVars, solverVars, app>>

CvStates == {"undefined", "partial", "loaded"}

\* boxes of height 2 and width 5 or 10 at an x offset, as four corner points
BoxPoints(x, w) == << <<x, 2>>, <<x, 0>>, <<x + w, 0>>, <<x + w, 2>> >>
BoxPool == {Detection(BoxPoints(x, w), ConfidenceDen) : x \in 0..MaxOffset, w \in {5, 10}}

\* an image in which strategy s1 finds region a and strategy s2 finds region b
PairImage(a, s1, b, s2) ==
    [height |-> ImageHeight,
     found |-> [s \in 1..3 |-> (IF s = s1 THEN <<a>> ELSE <<>>) \o (IF s = s2 THEN <<b>> ELSE <<>>)]]

CallDetectCardsOpenCV(cvNow, image, engineThrows) ==
    LET args == [cv |-> cvNow, image |-> image, engineThrows |-> engineThrows]
        r == detectCardsOpenCV(cvNow, image, engineThrows)
    IN  /\ fnCall = NoCall
        /\ fnCall' = IF r.kind = "throw" THEN Threw("detectCardsOpenCV", args)
                      ELSE Returned("detectCardsOpenCV", args, r.dets)
        /\ UNCHANGED <<hookVars, solverVars, app>>

\* quadrilaterals given as tl, tr, br, bl: rectangles with sides along the axes
\* or along (2,1) and (-1,2), and squares standing on a corner
AxisRect(w, h) == << <<0, 0>>, <<w, 0>>, <<w, h>>, <<0, h>> >>
TiltedRect(w, h) == << <<h, 0>>, <<h + 2 * w, w>>, <<2 * w, w + 2 * h>>, <<0, 2 * h>> >>
Diamond(r) == << <<r, 0>>, <<2 * r, r>>, <<r, 2 * r>>, <<0, r>> >>
RectPool ==
    {AxisRect(w, h) : w, h \in 1..MaxSide} \cup {TiltedRect(w, h) : w, h \in 1..MaxSide}
QuadPool == RectPool \cup {Diamond(r) : r \in 1..MaxSide}

CallWarpCardToImageData(cvNow, engineThrows, throwAt, corners, outW, outH) ==
    LET args == [cv |-> cvNow, engineThrows |-> engineThrows, throwAt |-> throwAt,
                 corners |-> corners, outW |-> outW, outH |-> outH]
        status == warpCardToImageData(cvNow, engineThrows)
        outcome == CASE status = "null" -> Returned("warpCardToImageData", args, [null |-> TRUE])
                     [] status = "throw" -> Threw("warpCardToImageData", args)
                     [] OTHER -> Returned("warpCardToImageData", args,
                                          warpedImage(corners, outW, outH))
    IN  /\ fnCall = NoCall
        /\ fnCall' = outcome @@ [buffers |-> warpBuffers(cvNow, engineThrows, throwAt)]
        /\ UNCHANGED <<hookVars, solverVars, app>>

\* Contours as the engine reports them (lengths in tenths of a pixel): a
\* rectangle along the axes, and one along (4, 3) and (-3, 4)
AxisContour(x, y, w, h, fillPercent, satStd) ==
    [area100 |-> w * h * fillPercent, w10 |-> 10 * w, h10 |-> 10 * h, satStd |-> satStd,
     pts |-> << <<10 * x, 10 * (y + h)>>, <<10 * x, 10 * y>>, <<10 * (x + w), 10 * y>>,
                <<10 * (x + w), 10 * (y + h)>> >>]
SlantedContour(x, y, w, h, fillPercent, satStd) ==
    [area100 |-> w * h * fillPercent, w10 |-> 10 * w, h10 |-> 10 * h, satStd |-> satStd,
     pts |-> << <<10 * x, 10 * y>>, <<10 * x + 8 * h, 10 * y + 6 * h>>,
                <<10 * x + 8 * h - 6 * w, 10 * y + 6 * h + 8 * w>>,
                <<10 * x - 6 * w, 10 * y + 8 * w>> >>]
\* a sliver around a diagonal of pixels: the quadrilateral (0,0), (1,1), (2,1),
\* (1,0), of area 1, shifted by (2,2); its rectangle has sides of half the
\* square root of 2 and three times that, given to the tenth
Sliver(w10, h10, area100) ==
    [area100 |-> area100, w10 |-> w10, h10 |-> h10, satStd |-> 20,
     pts |-> << <<20, 20>>, <<35, 35>>, <<40, 30>>, <<25, 15>> >>]

ContourPool ==
    {AxisContour(100, 100, 100, 150, 100, 20),    \* a card
     SlantedContour(100, 50, 100, 150, 90, 20),   \* a card seen at an angle
     SlantedContour(20, 50, 100, 150, 90, 20),    \* the same, a corner of it off the frame
     AxisContour(100, 100, 100, 150, 100, 5),     \* a blank rectangle
     AxisContour(100, 100, 100, 150, 50, 20),     \* a shape filling half its rectangle
     AxisContour(100, 100, 100, 100, 100, 20),    \* a square
     AxisContour(100, 100, 60, 150, 100, 20),     \* a strip
     AxisContour(100, 100, 20, 30, 100, 20),      \* a speck
     Sliver(7, 14, 90),
     Sliver(7, 21, 100)}
ContourLists == UNION {[1..k -> ContourPool] : k \in 0..MaxContours}
FramePool ==
    {[width |-> 10, height |-> 10], [width |-> 600, height |-> 600],
     [width |-> 2400, height |-> 900], [width |-> 600, height |-> 2400]}

\* a call of detectCardsOpenCV on a frame whose first strategy finds the
\* contours of list and whose second finds those of again
CallDetectFrame(cvNow, size, list, again, throwAt) ==
    /\ fnCall = NoCall
    /\ \E frame \in {[width |-> size.width, height |-> size.height,
                       contours |-> <<list, again, <<>>>>]} :
          \E r \in {detectFrame(cvNow, frame, throwAt)} :
              fnCall' = [fn |-> "detectFrame",
                         args |-> [cv |-> cvNow, frame |-> frame, throwAt |-> throwAt],
                         threw |-> r.kind = "throw",
                         ret |-> r.dets, found |-> r.found, working |-> r.working,
                         buffers |-> [allocated |-> r.allocated, released |-> r.released]]
    /\ UNCHANGED <<hookVars, solverVars, app>>

\* the points of a quadrilateral, read from its corner shift + 1 on, forwards or backwards
permute(pts, shift, reversed) ==
    [i \in 1..Len(pts) |->
        LET j == ((i - 1 + shift) % Len(pts)) + 1
        IN  IF reversed THEN pts[Len(pts) + 1 - j] ELSE pts[j]]

CallOrderCorners(quad, shift, reversed) ==
    LET pts == permute(quad, shift, reversed)
    IN  /\ fnCall = NoCall
        /\ fnCall' = Returned("orderCorners", pts, orderCorners(pts))
        /\ UNCHANGED <<hookVars, solverVars, app>>

\* 50 x 50 regions at three x offsets (0 and 25 overlap by half, as do 25 and
\* 50; 0 and 50 do not overlap) and three y offsets (0 and 60 lie in one row bucket of an
\* image of height ImageHeight, 130 in the next)
SquarePoints(x, y) == << <<x, y + 50>>, <<x, y>>, <<x + 50, y>>, <<x + 50, y + 50>> >>
RegionPool == {Detection(SquarePoints(x, y), ConfidenceDen) : x \in {0, 25, 50}, y \in {0, 60, 130}}
RegionLists == UNION {[1..k -> RegionPool] : k \in 0..MaxRegions}

\* an image in which the strategies find the regions of list, in this order:
\* the first up to cut1, the second up to cut2, the third the rest
ListImage(list, cut1, cut2) ==
    [height |-> ImageHeight,
     found |-> <<SubSeq(list, 1, cut1), SubSeq(list, cut1 + 1, cut2),
                 SubSeq(list, cut2 + 1, Len(list))>>]

CallGetThirdValue(t, i1, i2) ==
    LET values == propertyTable(t)
        args == [table |-> t, v1 |-> values[i1], v2 |-> values[i2]]
    IN  /\ fnCall = NoCall
        /\ fnCall' = Returned("getThirdValue", args, getThirdValue(args.v1, args.v2, values))
        /\ UNCHANGED <<hookVars, solverVars, app>>

CallComputeRequiredThirdCard(p1, p2) ==
    LET args == <<TestCard(0, p1), TestCard(1, p2)>>
    IN  /\ fnCall = NoCall
        /\ fnCall' = Returned("computeRequiredThirdCard", args,
                               computeRequiredThirdCard(args[1], args[2]))
        /\ UNCHANGED <<hookVars, solverVars, app>>

FnNext ==
    \/ fnCall = NoCall /\ \E list \in RegionLists :
          \E cut1 \in 0..Len(list) : \E cut2 \in cut1..Len(list) :
              CallDetectCardsOpenCV("loaded", ListImage(list, cut1, cut2), FALSE)
    \/ fnCall = NoCall /\ \E t \in 1..4, i1, i2 \in 1..3 : CallGetThirdValue(t, i1, i2)
    \/ fnCall = NoCall /\ \E p1, p2 \in CardPool : CallComputeRequiredThirdCard(p1, p2)
    \/ fnCall = NoCall /\ \E cvNow \in CvStates, a, b \in BoxPool, s1, s2 \in 1..3, engineThrows \in BOOLEAN :
          CallDetectCardsOpenCV(cvNow, PairImage(a, s1, b, s2), engineThrows)
    \/ fnCall = NoCall /\ \E cvNow \in CvStates, engineThrows \in BOOLEAN, corners \in RectPool,
             outW \in {100, 200}, outH \in {300}, throwAt \in WarpThrowPoints :
          CallWarpCardToImageData(cvNow, engineThrows, throwAt, corners, outW, outH)
    \/ fnCall = NoCall /\ \E cvNow \in CvStates, size \in FramePool, list \in ContourLists,
             again \in {<<>>, <<AxisContour(100, 100, 100, 150, 100, 20)>>},
             throwAt \in ThrowPoints :
          CallDetectFrame(cvNow, size, list, again, throwAt)
    \/ fnCall = NoCall /\ \E quad \in QuadPool, shift \in 0..3, reversed \in BOOLEAN :
          CallOrderCorners(quad, shift, reversed)
    \/ fnCall = NoCall /\ \E t \in 1..4, i1, i2, i3 \in 1..3 : CallIsIdenticalOrDistinct(t, i1, i2, i3)
    \/ fnCall = NoCall /\ \E shapeIdx, colorIdx, numberIdx, shadingIdx \in IndexRange :
          CallIndicesToCard(shapeIdx, colorIdx, numberIdx, shadingIdx)
    \/ fnCall = NoCall /\ \E p1, p2, p3 \in CardPool : CallAnalyzeSet(p1, p2, p3)

FnSpec == SolverSpecInit /\ [][FnNext]_vars

\* ------------------------ the solver on lists of pairwise different cards
AddDistinctCard(props) ==
    /\ Len(sCards) < MaxDistinct
    /\ sBrute = NotRun
    /\ sOptimized = NotRun
    /\ \A n \in 1..Len(sCards) :
          props # [shape |-> sCards[n].shape, color |-> sCards[n].color,
                   number |-> sCards[n].number, shading |-> sCards[n].shading]
    /\ sCards' = Append(sCards, TestCard(Len(sCards), props))
    /\ UNCHANGED <<sBrute, sOptimized>>

DistinctNext ==
    \/ \E props \in CardPool : AddDistinctCard(props) /\ UNCHANGED <<hookVars, fnCall, app>>
    \/ RunFindAllSets /\ UNCHANGED <<hookVars, fnCall, app>>
    \/ RunFindAllSetsOptimized /\ UNCHANGED <<hookVars, fnCall, app>>

DistinctSpec == SolverSpecInit /\ [][DistinctNext]_vars

\* ------------------------------------------------------------ the rule
\* The Set rule, stated on its own: on each property the three cards are all
\* equal or pairwise different.
AllSame(a, b, c) == a = b /\ b = c
AllDifferent(a, b, c) == a # b /\ b # c /\ a # c
RuleOn(a, b, c) == AllSame(a, b, c) \/ AllDifferent(a, b, c)
IsSet(c1, c2, c3) ==
    /\ RuleOn(c1.shape, c2.shape, c3.shape)
    /\ RuleOn(c1.color, c2.color, c3.color)
    /\ RuleOn(c1.number, c2.number, c3.number)
    /\ RuleOn(c1.shading, c2.shading, c3.shading)

\* the index triples i < j < k of a card list whose cards form a Set
ValidTriples(cards) ==
    {t \in (0..(Len(cards) - 1)) \X (0..(Len(cards) - 1)) \X (0..(Len(cards) - 1)) :
        /\ t[1] < t[2]
        /\ t[2] < t[3]
        /\ IsSet(At(cards, t[1]), At(cards, t[2]), At(cards, t[3]))}

IndexTriples(sets) == {sets[n].indices : n \in 1..Len(sets)}
NoRepeat(sets) == \A n, m \in 1..Len(sets) : sets[n].indices = sets[m].indices => n = m
SameProps(c1, c2) ==
    /\ c1.shape = c2.shape
    /\ c1.color = c2.color
    /\ c1.number = c2.number
    /\ c1.shading = c2.shading
HasDuplicates(cards) ==
    \E n, m \in 1..Len(cards) : n # m /\ SameProps(cards[n], cards[m])

\* every SetResult of sets is well formed over cards
WellFormed(cards, sets) ==
    \A n \in 1..Len(sets) :
        LET t == sets[n].indices
        IN  /\ 0 <= t[1]
            /\ t[1] < t[2]
            /\ t[2] < t[3]
            /\ t[3] < Len(cards)
            /\ \A m \in 1..3 : sets[n].cards[m] = At(cards, t[m])
            /\ IsSet(sets[n].cards[1], sets[n].cards[2], sets[n].cards[3])

\* ------------------------------------------------------------- claims
\* C1: for any card list, duplicates of property values included, findAllSets
\* and findAllSetsOptimized return the same set of index triples.
C1_SameTriples ==
    (sBrute.run /\ sOptimized.run) =>
        IndexTriples(sBrute.sets) = IndexTriples(sOptimized.sets)

\* C2: findAllSets returns exactly the index triples i < j < k whose cards
\* satisfy the Set rule on all four properties, each once; nothing for fewer
\* than three cards; one Set for three cards equal on three properties and
\* pairwise different on the fourth; nothing for three cards of which some
\* property takes exactly two values.
C2_BruteForceExact ==
    sBrute.run =>
        /\ IndexTriples(sBrute.sets) = ValidTriples(sCards)
        /\ NoRepeat(sBrute.sets)
        /\ Len(sCards) < 3 => sBrute.sets = <<>>
        /\ Len(sCards) = 3 =>
              LET a == sCards[1]
                  b == sCards[2]
                  c == sCards[3]
              IN  /\ ( \/ Cardinality({a.shape, b.shape, c.shape}) = 2
                       \/ Cardinality({a.color, b.color, c.color}) = 2
                       \/ Cardinality({a.number, b.number, c.number}) = 2
                       \/ Cardinality({a.shading, b.shading, c.shading}) = 2 )
                       => sBrute.sets = <<>>
                  /\ ( /\ AllDifferent(a.shape, b.shape, c.shape)
                       /\ AllSame(a.color, b.color, c.color)
                       /\ AllSame(a.number, b.number, c.number)
                       /\ AllSame(a.shading, b.shading, c.shading) )
                       => Len(sBrute.sets) = 1

C2_Witness ==
    /\ sBrute.run
    /\ Len(sCards) = 4
    /\ Len(sBrute.sets) = 2
    /\ HasDuplicates(sCards)

\* C3: findAllSetsOptimized emits every valid index triple i < j < k, and
\* none more than once.
C3_OptimizedExactlyOnce ==
    sOptimized.run =>
        /\ ValidTriples(sCards) \subseteq IndexTriples(sOptimized.sets)
        /\ NoRepeat(sOptimized.sets)

\* C4: every SetResult returned by either algorithm has increasing indices
\* inside the list, holds the input cards at these indices, and its cards
\* satisfy the Set rule.
C4_SetResultsWellFormed ==
    /\ sBrute.run => WellFormed(sCards, sBrute.sets)
    /\ sOptimized.run => WellFormed(sCards, sOptimized.sets)

C4_Witness ==
    /\ sBrute.run
    /\ sOptimized.run
    /\ HasDuplicates(sCards)
    /\ Len(sBrute.sets) >= 1
    /\ Len(sOptimized.sets) >= 1

\* a step in which an invocation of processFrame returns
Returns == lastSettled'.serial # lastSettled.serial

\* a FrameResult is complete: its sets are those of its own card list
Complete(r) ==
    /\ IndexTriples(r.sets) = ValidTriples(r.cards)
    /\ NoRepeat(r.sets)
    /\ WellFormed(r.cards, r.sets)

\* a call that arrives while a frame is in flight returns null in the same step
\* and is never in flight itself
C5_NoSecondFrame ==
    \A c \in Calls :
        (calls[c].pc = "idle" /\ InFlight # {}) =>
            /\ calls'[c].pc = "idle"
            /\ (Returns /\ lastSettled'.call = c) =>
                   /\ lastSettled'.outcome = "dropped"
                   /\ lastSettled'.ret = NoResult

\* C5: at most one processFrame invocation is in flight at any time, and a
\* call that arrives while one is in flight is dropped: it returns null at
\* once, it is neither queued nor run beside the frame in flight.
C5_OneFrameInFlight ==
    /\ [](Cardinality(InFlight) <= 1)
    /\ [][C5_NoSecondFrame]_vars

C5_Witness ==
    /\ InFlight # {}
    /\ lastSettled.outcome = "dropped"
    /\ lastSettled.call \notin InFlight

\* the step in which the frame in flight finishes clears the flag, and a call
\* that arrives when no frame is in flight is processed
C6_FinishReleases ==
    /\ \A c \in Calls :
           (calls[c].pc = "awaitClassify" /\ calls'[c].pc = "idle") => ~isProcessingRef'
    /\ (InFlight = {} /\ Returns) => lastSettled'.outcome \in {"result", "error"}

\* C6: when the frame in flight finishes, with a result or with an error, the
\* guard flag is released: with no frame in flight the flag is free, and the
\* next call is processed, not dropped.
C6_GuardReleased ==
    /\ [](InFlight = {} => ~isProcessingRef)
    /\ [][C6_FinishReleases]_vars

C6_Witness ==
    /\ lastSettled.outcome = "error"
    /\ "classify" \in lastSettled.invoked
    /\ InFlight # {}
    /\ lastSettled.call \in InFlight

\* the step of a dropped call changes nothing but the record of that return
C7_DropStep ==
    (Returns /\ lastSettled'.outcome = "dropped") =>
        /\ lastSettled'.invoked = {}
        /\ lastSettled'.ret = NoResult
        /\ results' = results
        /\ calls' = calls
        /\ isProcessingRef
        /\ isProcessingRef'

\* C7: a call dropped by the guard is a no-op: it raises no error, invokes
\* neither detector, rectifier, classifier nor solver, leaves results and the
\* frame in flight as they are, and the guard stays held.
C7_DroppedIsNoOp == [][C7_DropStep]_vars

C7_Witness ==
    /\ lastSettled.outcome = "dropped"
    /\ InFlight # {}
    /\ isProcessingRef
    /\ ~results.null

\* a step changes results only when a frame returns its result, which holds a
\* card for every detection that was not skipped, or when clearResults empties
\* it; a failed or dropped frame leaves it as it is
C8_PublishStep ==
    /\ results' # results =>
          \/ results'.null /\ ~Returns
          \/ /\ Returns
             /\ lastSettled'.outcome = "result"
             /\ lastSettled'.ret = results'
             /\ Len(results'.cards) =
                    IF "generateMockCards" \in lastSettled'.invoked
                    THEN MockCount
                    ELSE lastSettled'.ndet - Cardinality(lastSettled'.skipped)
    /\ (Returns /\ lastSettled'.outcome \in {"error", "dropped"}) => results' = results

\* C8: results only ever takes a complete FrameResult, whose sets are those
\* findAllSets finds in its own card list (every index a position of the list);
\* a frame that fails or is dropped updates nothing, and no card list is
\* published before its frame has ended.
C8_ResultsComplete ==
    /\ [](results.null \/ Complete(results))
    /\ [][C8_PublishStep]_vars

C8_Witness ==
    /\ ~results.null
    /\ Len(results.sets) >= 1
    /\ lastSettled.outcome = "error"
    /\ lastSettled.failed # {}
    /\ lastSettled.ndet > 1

\* C9: when the processing of one detected card fails within a frame, only
\* that card is skipped: the frame still returns a FrameResult, which holds
\* the other detections' cards in detection order.
C9_OnlyFailedCardSkipped ==
    (lastSettled.outcome \in {"result", "error"} /\ lastSettled.failed # {}) =>
        /\ lastSettled.outcome = "result"
        /\ Len(lastSettled.ret.cards) = lastSettled.ndet - Cardinality(lastSettled.failed)
        /\ \A n, m \in 1..Len(lastSettled.ret.cards) :
               n < m => lastSettled.ret.cards[n].bbox[1] < lastSettled.ret.cards[m].bbox[1]

IdIsPosition(r) ==
    /\ \A n \in 1..Len(r.cards) : r.cards[n].id = n - 1
    /\ \A n \in 1..Len(r.sets) : \A m \in 1..3 : r.sets[n].cards[m].id = r.sets[n].indices[m]

\* C10: in every FrameResult processFrame produces, each card's id is its
\* position in the card list, so the ids are 0..n-1 and are the indices of
\* the frame's SetResults, also when detections were skipped.
C10_IdIsPosition ==
    /\ ~results.null => IdIsPosition(results)
    /\ lastSettled.outcome = "result" => IdIsPosition(lastSettled.ret)

C10_Witness ==
    /\ lastSettled.outcome = "result"
    /\ lastSettled.skipped # {}
    /\ Len(lastSettled.ret.cards) >= 1
    /\ results = lastSettled.ret

\* the number of distinct values among a, b, c, counted one value at a time
CountDistinct(a, b, c) == 1 + (IF b # a THEN 1 ELSE 0) + (IF c # a /\ c # b THEN 1 ELSE 0)

InDomain(card) ==
    /\ card.shape \in {"diamond", "oval", "squiggle"}
    /\ card.color \in {"red", "green", "purple"}
    /\ card.number \in {1, 2, 3}
    /\ card.shading \in {"solid", "striped", "empty"}

ValidIndices(args) == \A i \in 1..4 : args[i] \in {0, 1, 2}

\* C11: for indices in {0,1,2} indicesToCard returns the values at these
\* positions of the four fixed tables; the mapping is injective there and every
\* field of the result lies in its 3-element domain.
C11_IndicesToCardLookup ==
    (fnCall.fn = "indicesToCard" /\ ValidIndices(fnCall.args)) =>
        /\ ~fnCall.threw
        /\ fnCall.ret.shape = At(<<"diamond", "oval", "squiggle">>, fnCall.args[1])
        /\ fnCall.ret.color = At(<<"red", "green", "purple">>, fnCall.args[2])
        /\ fnCall.ret.number = fnCall.args[3] + 1
        /\ fnCall.ret.shading = At(<<"solid", "striped", "empty">>, fnCall.args[4])
        /\ InDomain(fnCall.ret)
        /\ \A a, b, c, d \in {0, 1, 2} :
               indicesToCard(a, b, c, d) = fnCall.ret => <<a, b, c, d>> = fnCall.args

C11_Witness ==
    /\ fnCall.fn = "indicesToCard"
    /\ fnCall.args = <<2, 1, 0, 2>>
    /\ fnCall.ret = [shape |-> "squiggle", color |-> "green", number |-> 1, shading |-> "empty"]

\* C12: a call of indicesToCard with an index outside {0,1,2} signals an
\* error and returns no result.
C12_OutOfRangeIsFatal ==
    (fnCall.fn = "indicesToCard" /\ ~ValidIndices(fnCall.args)) => fnCall.threw

\* C13: analyzeSet labels each property "all same" iff the three cards agree
\* on it and "all different" otherwise, also when the property takes exactly
\* two values; it never rejects its input; for A, B, C of the scenario it
\* gives shape all different and the other three all same.
C13_AnalyzeSetLabels ==
    fnCall.fn = "analyzeSet" =>
        LET c == fnCall.args
            label(a, b, d) == IF a = b /\ b = d THEN "all same" ELSE "all different"
        IN  /\ ~fnCall.threw
            /\ fnCall.ret.shape = label(c[1].shape, c[2].shape, c[3].shape)
            /\ fnCall.ret.color = label(c[1].color, c[2].color, c[3].color)
            /\ fnCall.ret.number = label(c[1].number, c[2].number, c[3].number)
            /\ fnCall.ret.shading = label(c[1].shading, c[2].shading, c[3].shading)
            /\ CountDistinct(c[1].shape, c[2].shape, c[3].shape) = 2
                   => fnCall.ret.shape = "all different"
            /\ ( /\ <<c[1].shape, c[2].shape, c[3].shape>> = <<"diamond", "oval", "squiggle">>
                 /\ \A i \in 1..3 : /\ c[i].color = "red"
                                     /\ c[i].number = 1
                                     /\ c[i].shading = "solid" )
                   => fnCall.ret = [shape |-> "all different", color |-> "all same",
                                    number |-> "all same", shading |-> "all same"]

C13_Witness ==
    /\ fnCall.fn = "analyzeSet"
    /\ CountDistinct(fnCall.args[1].shape, fnCall.args[2].shape, fnCall.args[3].shape) = 2
    /\ fnCall.ret.shape = "all different"
    /\ fnCall.ret.shading = "all same"

\* C20: for values a, b, c of a 3-element domain isIdenticalOrDistinct(a, b, c)
\* is true iff the number of distinct values among them is not 2, that is iff
\* they are all equal or pairwise different.
C20_RuleIsNotTwoDistinct ==
    fnCall.fn = "isIdenticalOrDistinct" =>
        LET a == fnCall.args[1]
            b == fnCall.args[2]
            c == fnCall.args[3]
        IN  /\ ~fnCall.threw
            /\ fnCall.ret = (CountDistinct(a, b, c) # 2)
            /\ fnCall.ret = (AllSame(a, b, c) \/ AllDifferent(a, b, c))

C20_Witness ==
    /\ fnCall.fn = "isIdenticalOrDistinct"
    /\ CountDistinct(fnCall.args[1], fnCall.args[2], fnCall.args[3]) = 2
    /\ fnCall.ret = FALSE

\* the engine is available when cv and its runtime are there (isOpenCVLoaded)
EngineAvailable(cvNow) == cvNow = "loaded"

\* C14: detectCardsOpenCV never throws, and whenever the engine is not
\* available it returns an empty list and warpCardToImageData returns null.
C14_DegradedNeverThrows ==
    /\ fnCall.fn = "detectCardsOpenCV" =>
          /\ ~fnCall.threw
          /\ ~EngineAvailable(fnCall.args.cv) => fnCall.ret = <<>>
    /\ (fnCall.fn = "warpCardToImageData" /\ ~EngineAvailable(fnCall.args.cv)) =>
          /\ ~fnCall.threw
          /\ fnCall.ret.null

\* the two regions of a detector call and their overlap, in areas
PairOf(image) == image.found[1] \o image.found[2] \o image.found[3]
BoxArea(b) == (b[3] - b[1]) * (b[4] - b[2])
Intersection(a, b) ==
    LET x == Min2(a[3], b[3]) - Max2(a[1], b[1])
        y == Min2(a[4], b[4]) - Max2(a[2], b[2])
    IN  IF x > 0 /\ y > 0 THEN x * y ELSE 0
SmallerArea(a, b) == Min2(BoxArea(a), BoxArea(b))
Detected == fnCall.fn = "detectCardsOpenCV" /\ ~fnCall.threw /\ fnCall.args.cv = "loaded"
Deduplicated == Detected /\ Len(PairOf(fnCall.args.image)) = 2

\* C15 as stated: of two regions whose boxes intersect in at least 40% of the
\* smaller box's area exactly one is retained; below 40% both are.
C15_AtLeast40Collapses ==
    Deduplicated =>
        LET pair == PairOf(fnCall.args.image)
            a == pair[1].bbox
            b == pair[2].bbox
        IN  IF 10 * Intersection(a, b) >= 4 * SmallerArea(a, b)
            THEN Len(fnCall.ret) = 1
            ELSE Len(fnCall.ret) = 2

\* C15, amended: of two regions whose boxes intersect in more than 40% of the
\* smaller box's area exactly one is retained; at 40% or below both are.
C15_Above40Collapses ==
    Deduplicated =>
        LET pair == PairOf(fnCall.args.image)
            a == pair[1].bbox
            b == pair[2].bbox
        IN  IF 10 * Intersection(a, b) > 4 * SmallerArea(a, b)
            THEN Len(fnCall.ret) = 1 /\ fnCall.ret[1] \in {pair[1], pair[2]}
            ELSE Len(fnCall.ret) = 2 /\ {fnCall.ret[1], fnCall.ret[2]} = {pair[1], pair[2]}

C15_Witness ==
    /\ Deduplicated
    /\ LET pair == PairOf(fnCall.args.image)
       IN  /\ 10 * Intersection(pair[1].bbox, pair[2].bbox)
                = 4 * SmallerArea(pair[1].bbox, pair[2].bbox)
           /\ BoxArea(pair[1].bbox) # BoxArea(pair[2].bbox)
           /\ Len(fnCall.ret) = 2

\* C16: orderCorners gives the same (tl, tr, br, bl) for every cyclic or
\* reversed permutation of the four points of a convex quadrilateral.
C16_OrderIndependent ==
    fnCall.fn = "orderCorners" =>
        \A shift \in 0..3, reversed \in BOOLEAN :
            orderCorners(permute(fnCall.args, shift, reversed)) = fnCall.ret

\* C17: warpCardToImageData turns the corners by one position when the top
\* edge is longer than the left edge and uses them unchanged otherwise, so
\* that for a rectangle the edge mapped onto the top of the output is never
\* longer than the one mapped onto its left side; the output is outW x outH.
C17_PortraitOutput ==
    (fnCall.fn = "warpCardToImageData" /\ ~fnCall.threw /\ ~fnCall.ret.null) =>
        LET c == fnCall.args.corners
            src == fnCall.ret.srcPts
        IN  /\ dist2(c[1], c[2]) > dist2(c[1], c[4]) => src = <<c[4], c[1], c[2], c[3]>>
            /\ dist2(c[1], c[2]) <= dist2(c[1], c[4]) => src = c
            /\ dist2(src[1], src[2]) <= dist2(src[1], src[4])
            /\ fnCall.ret.width = fnCall.args.outW
            /\ fnCall.ret.height = fnCall.args.outH

C17_Witness ==
    /\ fnCall.fn = "warpCardToImageData"
    /\ ~fnCall.threw
    /\ ~fnCall.ret.null
    /\ fnCall.args.corners = TiltedRect(3, 1)
    /\ fnCall.ret.srcPts # fnCall.args.corners
    /\ fnCall.ret.width = 100

\* the frame that returned last took its cards from generateMockCards
Synthetic == lastSettled.outcome = "result" /\ "generateMockCards" \in lastSettled.invoked

\* C18: a frame that falls back to synthetic mode yields 12 cards on a
\* 4-column grid whose boxes do not overlap pairwise, with ids 0..11 in list
\* order, every property inside its domain and a confidence in (0, 1].
C18_SyntheticCardsValid ==
    Synthetic =>
        LET cards == lastSettled.ret.cards
        IN  /\ Len(cards) = 12
            /\ \A n \in 1..Len(cards) :
                  /\ cards[n].id = n - 1
                  /\ InDomain(cards[n])
                  /\ cards[n].confidence > 0
                  /\ cards[n].confidence <= ConfidenceDen
                  /\ cards[n].bbox[1] < cards[n].bbox[3]
                  /\ cards[n].bbox[2] < cards[n].bbox[4]
                  /\ \A m \in 1..Len(cards) :
                        /\ (m - 1) % 4 = (n - 1) % 4 => cards[m].bbox[1] = cards[n].bbox[1]
                        /\ (m - 1) \div 4 = (n - 1) \div 4 => cards[m].bbox[2] = cards[n].bbox[2]
                        /\ m # n => Intersection(cards[m].bbox, cards[n].bbox) = 0

C18_Witness ==
    /\ Synthetic
    /\ ~mockMode
    /\ classifier = "ready"
    /\ results = lastSettled.ret
    /\ \E n, m \in 1..Len(lastSettled.ret.cards) :
          lastSettled.ret.cards[n].shape # lastSettled.ret.cards[m].shape

\* a call of processFrame that passes the guard while the classifier has been
\* created but its model is not loaded (load pending or failed) returns
\* synthetic cards in the same step
C19_FallbackStep ==
    (/\ classifier \in {"loading", "failed"}
     /\ ~isProcessingRef
     /\ (calls' # calls \/ Returns))
        => /\ Returns
           /\ lastSettled'.outcome = "result"
           /\ "generateMockCards" \in lastSettled'.invoked

\* C19: processFrame never invokes classify on a classifier whose model is
\* not loaded; with the load pending or failed a frame request yields
\* synthetic cards, not a failed frame.
C19_NoClassifyWithoutModel ==
    /\ [](\A c \in Calls : calls[c].pc = "awaitClassify" => calls[c].sessionOk)
    /\ [][C19_FallbackStep]_vars

\* the values of property table t, and all property vectors
DomainOf(t) == {propertyTable(t)[i] : i \in 1..3}
AllProps == {PropCard(a, b, c, d) : a, b, c, d \in 1..3}

\* C21: for values a, b of a 3-element domain exactly one value c of the
\* domain satisfies the Set rule on (a, b, c); getThirdValue returns it (a when
\* a = b, the remaining value otherwise); computeRequiredThirdCard(c1, c2) is
\* the one property vector that completes c1, c2 to a Set.
C21_ThirdIsUnique ==
    /\ fnCall.fn = "getThirdValue" =>
          LET a == fnCall.args.v1
              b == fnCall.args.v2
              dom == DomainOf(fnCall.args.table)
          IN  /\ ~fnCall.threw
              /\ fnCall.ret \in dom
              /\ {c \in dom : RuleOn(a, b, c)} = {fnCall.ret}
              /\ a = b => fnCall.ret = a
              /\ a # b => dom = {a, b, fnCall.ret} /\ fnCall.ret \notin {a, b}
    /\ fnCall.fn = "computeRequiredThirdCard" =>
          /\ ~fnCall.threw
          /\ {p \in AllProps : IsSet(fnCall.args[1], fnCall.args[2], p)} = {fnCall.ret}

C21_Witness ==
    /\ fnCall.fn = "computeRequiredThirdCard"
    /\ fnCall.args[1].shape # fnCall.args[2].shape
    /\ fnCall.args[1].color # fnCall.args[2].color
    /\ fnCall.args[1].number = fnCall.args[2].number
    /\ fnCall.ret.shape \notin {fnCall.args[1].shape, fnCall.args[2].shape}
    /\ fnCall.ret.number = fnCall.args[1].number

\* sets lists its triples in increasing lexicographic order of (i, j, k)
LexLess(s, t) ==
    \/ s[1] < t[1]
    \/ s[1] = t[1] /\ s[2] < t[2]
    \/ s[1] = t[1] /\ s[2] = t[2] /\ s[3] < t[3]
LexIncreasing(sets) ==
    \A n \in 1..(Len(sets) - 1) : LexLess(sets[n].indices, sets[n + 1].indices)

\* C29: on a list of pairwise different cards findAllSets and
\* findAllSetsOptimized return the same sequence, the triples in increasing
\* lexicographic order of (i, j, k).
C29_SameSequence ==
    (sBrute.run /\ sOptimized.run /\ ~HasDuplicates(sCards)) =>
        /\ sBrute.sets = sOptimized.sets
        /\ LexIncreasing(sBrute.sets)
        /\ LexIncreasing(sOptimized.sets)

C29_Witness ==
    /\ sBrute.run
    /\ sOptimized.run
    /\ ~HasDuplicates(sCards)
    /\ Len(sOptimized.sets) = 2
    /\ sOptimized.sets[1].indices[1] = sOptimized.sets[2].indices[1]

\* the detections of a suspended invocation whose card is in its list
Classified(call) == {call.cards[n].id : n \in 1..Len(call.cards)}

\* a classify call starts only for a detection later than every one started
\* before, and after these have completed: their cards are in the list or
\* the frame has ended
C22_StartStep ==
    \A c \in Calls :
        (calls'[c].classifying # calls[c].classifying /\ calls'[c].classifying # {}) =>
            \A i \in calls[c].classifying :
                /\ i \in Classified(calls'[c])
                /\ \A k \in calls'[c].classifying : i < k

\* C22: within a frame the cards are classified one after the other in
\* detection order: at most one classify call is outstanding at any time,
\* every detection before it has been classified or skipped, and the call for
\* a later detection starts only when the one before has completed.
C22_SequentialClassification ==
    /\ [](/\ Cardinality(UNION {calls[c].classifying : c \in Calls}) <= 1
          /\ \A c \in Calls :
                /\ Cardinality(calls[c].classifying) <= 1
                /\ calls[c].pc = "awaitClassify" =>
                      /\ calls[c].classifying = {calls[c].idx}
                      /\ Classified(calls[c]) \cup calls[c].skipped = 0..(calls[c].idx - 1)
                      /\ \A n, m \in 1..Len(calls[c].cards) :
                            n < m => calls[c].cards[n].id < calls[c].cards[m].id)
    /\ [][C22_StartStep]_vars

C22_Witness ==
    \E c \in Calls :
        /\ calls[c].pc = "awaitClassify"
        /\ calls[c].classifying = {2}
        /\ Len(calls[c].cards) = 2

\* the candidates of an image in the order of their discovery, and whether
\* two regions intersect in more than 40% of the smaller one's area
Candidates(image) == image.found[1] \o image.found[2] \o image.found[3]
Over40(a, b) == 10 * Intersection(a.bbox, b.bbox) > 4 * SmallerArea(a.bbox, b.bbox)
Retained == {fnCall.ret[n] : n \in 1..Len(fnCall.ret)}

\* C23: after deduplication no two retained regions intersect in more than
\* 40% of the smaller one's area; a candidate is discarded only if it does so
\* with a region accepted before it, and the one accepted earlier is kept.
C23_DedupKeepsEarlier ==
    Detected =>
        LET cand == Candidates(fnCall.args.image)
        IN  /\ Cardinality(Retained) = Len(fnCall.ret)
            /\ Retained \subseteq {cand[n] : n \in 1..Len(cand)}
            /\ \A a, b \in Retained : a # b => ~Over40(a, b)
            /\ Len(cand) > 0 => cand[1] \in Retained
            /\ \A n \in 1..Len(cand) :
                  cand[n] \notin Retained =>
                      \E m \in 1..(n - 1) : cand[m] \in Retained /\ Over40(cand[m], cand[n])

C23_Witness ==
    /\ Detected
    /\ LET cand == Candidates(fnCall.args.image)
       IN  /\ Len(cand) = 3
           /\ Over40(cand[1], cand[2])
           /\ Over40(cand[2], cand[3])
           /\ ~Over40(cand[1], cand[3])
           /\ Retained = {cand[1], cand[3]}
           /\ fnCall.args.image.found[1] = <<cand[1]>>
           /\ fnCall.args.image.found[3] = <<cand[3]>>

\* the row bucket floor(centerY / (imageHeight / 6)) and twice the horizontal centre
RowBucket(r, imageHeight) == (6 * (r.bbox[2] + r.bbox[4])) \div (2 * imageHeight)
CentreX2(r) == r.bbox[1] + r.bbox[3]

\* C24: the list detectCardsOpenCV returns is in reading order: of two
\* consecutive regions the first has the smaller row bucket, or the same row
\* bucket and a horizontal centre not right of the second's.
C24_ReadingOrder ==
    Detected =>
        \A n \in 1..(Len(fnCall.ret) - 1) :
            LET h == fnCall.args.image.height
                a == fnCall.ret[n]
                b == fnCall.ret[n + 1]
            IN  \/ RowBucket(a, h) < RowBucket(b, h)
                \/ RowBucket(a, h) = RowBucket(b, h) /\ CentreX2(a) <= CentreX2(b)

C24_Witness ==
    /\ Detected
    /\ Len(fnCall.ret) = 3
    /\ fnCall.ret # Candidates(fnCall.args.image)
    /\ RowBucket(fnCall.ret[1], ImageHeight) = RowBucket(fnCall.ret[2], ImageHeight)
    /\ RowBucket(fnCall.ret[2], ImageHeight) < RowBucket(fnCall.ret[3], ImageHeight)
    /\ CentreX2(fnCall.ret[3]) < CentreX2(fnCall.ret[1])

\* the lists that hold the elements of list once each, in any order
Orderings(list) ==
    {[n \in 1..Len(list) |-> list[p[n]]] :
        p \in {q \in [1..Len(list) -> 1..Len(list)] : \A i, j \in 1..Len(list) : q[i] = q[j] => i = j}}

\* C25: the order of the returned regions does not depend on the order of
\* their discovery: the retained regions, discovered in any order, give the
\* same output sequence.
C25_OrderIndependent ==
    Detected =>
        \A list \in Orderings(fnCall.ret) :
            detectCardsOpenCV("loaded", ListImage(list, Len(list), Len(list)), FALSE).dets
                = fnCall.ret

\* a call of detectCardsOpenCV on a frame, with the engine loaded, that returned
FrameDetected == fnCall.fn = "detectFrame" /\ fnCall.args.cv = "loaded" /\ ~fnCall.threw

\* q is p divided by the scale num / den, exactly
Unscaled(q, p, scale) == q * scale.num = p * scale.den

\* C26: the working image has its longer side at most 1200 px, the scale is
\* working size over original size, and every returned bbox and corner
\* coordinate is a working-space coordinate divided by the scale.
C26_LongerSideBounded ==
    FrameDetected =>
        LET frame == fnCall.args.frame
            img == fnCall.working
        IN  /\ Max2(img.cols, img.rows) <= 1200
            /\ img.cols * img.scale.den = frame.width * img.scale.num
            /\ 2 * img.rows * img.scale.den <= (2 * frame.height + 1) * img.scale.num
            /\ 2 * img.rows * img.scale.den >= (2 * frame.height - 1) * img.scale.num
            /\ \A n \in 1..Len(fnCall.ret) :
                  \E s \in 1..3 : \E i \in 1..Len(frame.contours[s]) :
                      LET pts == frame.contours[s][i].pts
                          r == fnCall.ret[n]
                      IN  /\ \A k \in 1..4 : \E j \in 1..4 :
                                /\ Unscaled(r.corners[k][1], pts[j][1], img.scale)
                                /\ Unscaled(r.corners[k][2], pts[j][2], img.scale)
                          /\ \A k \in {1, 3} : \E j \in 1..4 : Unscaled(r.bbox[k], pts[j][1], img.scale)
                          /\ \A k \in {2, 4} : \E j \in 1..4 : Unscaled(r.bbox[k], pts[j][2], img.scale)

\* the bounds of a list of points
Bounds(pts) ==
    <<SeqMin([i \in 1..Len(pts) |-> pts[i][1]]), SeqMin([i \in 1..Len(pts) |-> pts[i][2]]),
      SeqMax([i \in 1..Len(pts) |-> pts[i][1]]), SeqMax([i \in 1..Len(pts) |-> pts[i][2]])>>

\* the filters as the specification lists them, on a contour of a frame
PassesFilters(c, frame, img) ==
    LET long == Max2(c.w10, c.h10)
        short == Min2(c.w10, c.h10)
        full == Bounds([i \in 1..4 |-> <<(c.pts[i][1] * img.scale.den) \div img.scale.num,
                                        (c.pts[i][2] * img.scale.den) \div img.scale.num>>])
    IN  /\ 200 * c.area100 >= 100 * img.cols * img.rows            \* at least 0.5% of the image
        /\ 2 * c.area100 <= 100 * img.cols * img.rows              \* at most 50%
        /\ c.w10 * c.h10 > 100                                     \* rectangle area > 1
        /\ 100 * c.area100 >= 60 * c.w10 * c.h10                   \* fill ratio >= 0.60
        /\ 10 * long >= 11 * short /\ 10 * long <= 22 * short      \* max(h/w, w/h) in [1.1, 2.2]
        /\ c.satStd >= 8
        /\ 100 * Intersection(full, <<0, 0, 10 * frame.width, 10 * frame.height>>)
              >= 85 * BoxArea(full)

\* C27: within one strategy a contour yields a region iff it passes all the
\* filters (area within [0.5%, 50%], rectangle area > 1, fill ratio >= 0.60,
\* aspect max(h/w, w/h) within [1.1, 2.2], saturation deviation >= 8, at least
\* 85% of the bbox inside the image); each region has 4 corners, the bounds of
\* its corners as bbox, and the fill ratio as confidence.
C27_RegionIffPassesFilters ==
    FrameDetected =>
        \A s \in 1..3 :
            LET frame == fnCall.args.frame
                kept == SelectSeq(frame.contours[s],
                                  LAMBDA c : PassesFilters(c, frame, fnCall.working))
                regions == fnCall.found[s]
            IN  /\ Len(regions) = Len(kept)
                /\ \A n \in 1..Len(regions) :
                      /\ Len(regions[n].corners) = 4
                      /\ regions[n].bbox = Bounds(regions[n].corners)
                      /\ regions[n].confidence
                            = [num |-> kept[n].area100, den |-> kept[n].w10 * kept[n].h10]

\* C28: every native buffer allocated during a call of detectCardsOpenCV
\* (detectWithStrategy included) or warpCardToImageData is released exactly
\* once before the call exits, on every exit path.
C28_BuffersReleased ==
    fnCall.fn \in {"detectFrame", "warpCardToImageData"} =>
        LET b == fnCall.buffers
        IN  /\ \A n \in 1..Len(b.allocated) :
                  Cardinality({m \in 1..Len(b.released) : b.released[m] = b.allocated[n]}) = 1
            /\ \A m \in 1..Len(b.released) : \E n \in 1..Len(b.allocated) : b.allocated[n] = b.released[m]

\* C30: after an image upload, whatever its outcome, isProcessing eventually
\* returns to false.
C30_ProcessingEnds == app.isProcessing ~> ~app.isProcessing

====
